---- MODULE Spec2Model ----
(***************************************************************************)
(* hdnet.spikes: the Spikes class (src/hdnet/spikes.py).                   *)
(*                                                                         *)
(* A numpy array is modelled the way numpy stores it: a shape (the tuple   *)
(* of axis lengths) and the elements in C (row-major) order.  Indices in   *)
(* the operators below are 0-based, as in the source; only the positions   *)
(* inside a TLA+ sequence are 1-based.                                     *)
(*                                                                         *)
(* The optional arguments None are modelled by the falsy value the source  *)
(* treats alike (`x or default`): 0 for top_neurons and stop, <<>> for     *)
(* trials.                                                                 *)
(*                                                                         *)
(* Array elements are integers.  A covariance entry is kept as an exact    *)
(* fraction, or as one of the non-finite values a floating-point division  *)
(* by zero gives; the rounding of floating-point arithmetic is left out.   *)
(*                                                                         *)
(* Left out: the constructors that read files (lines 71-114), the          *)
(* reshape = True result of to_windowed (lines 167-174), the               *)
(* save_png_name branches of rasterize and covariance, and the calls of    *)
(* restrict_to_most_active_neurons, to_windowed, rasterize and covariance  *)
(* on an object that holds an array of more than 3 axes.                   *)
(***************************************************************************)
EXTENDS Integers, Sequences, FiniteSets, TLC

VARIABLES
    constructed,      \* TRUE once __init__ has returned an object
    spikes_arr,       \* self._spikes_arr
    T, N, M,          \* self._T, self._N, self._M
    idx,              \* self.idx (set by restrict_to_most_active_neurons)
    mean_activities,  \* self.mean_activities
    call,             \* the last call and its arguments
    pre,              \* self._spikes_arr as the last call found it, if it read it
    ret               \* what the last call returned or raised

vars == <<constructed, spikes_arr, T, N, M, idx, mean_activities, call, pre, ret>>

----------------------------------------------------------------------------
(* Bounds of the model *)

MaxT == 2          \* trials of an input array
MaxN == 2          \* sources of an input array
MaxM == 3          \* time bins of an input array
MaxCells == 8      \* elements of a binary input array
MaxRawCells == 3   \* elements of a non-binary input array
MaxOddRank == 4    \* largest axis count of an input array
MaxOddCells == 2   \* elements of an input array with 0, 1 or more than 3 axes

BinVals == {0, 1}
RawVals == {-1, 0, 2}

----------------------------------------------------------------------------
(* numpy arrays *)

RECURSIVE Prod(_)
Prod(s) == IF s = <<>> THEN 1 ELSE Head(s) * Prod(Tail(s))

Arr(s, f) == [shape |-> s, flat |-> f]

NoArr == Arr(<<>>, <<>>)

Rank(A) == Len(A.shape)

\* ndarray.reshape: the same elements in the same order under another shape
Reshape(A, s) == Arr(s, A.flat)

\* A[t, n, m] of a 3-axis array
At3(A, t, n, m) == A.flat[(t * A.shape[2] + n) * A.shape[3] + m + 1]

\* A[n, m] of a 2-axis array
At2(A, n, m) == A.flat[n * A.shape[2] + m + 1]

ArraysOf(shapes, vals) ==
    UNION { { Arr(s, f) : f \in [1..Prod(s) -> vals] } : s \in shapes }

----------------------------------------------------------------------------
(* Exceptions and return values *)

NoCall == [op |-> "none"]

\* no call is in progress or waiting to be looked at
Idle == call = NoCall

Raise(e) == [kind |-> "raise", exc |-> e]
ReturnNone == [kind |-> "None", exc |-> ""]
ReturnSelf == [kind |-> "self", exc |-> ""]

----------------------------------------------------------------------------
(* preprocess *)

Sign(x) == IF x > 0 THEN 1 ELSE IF x < 0 THEN -1 ELSE 0

\* faulty variant: a symmetric rectifier, |sign(x)|
HeavisideAbs(x) == (Sign(x) * Sign(x) + 1) \div 2

\* (np.sign(x) + 1) // 2
Heaviside(x) == (Sign(x) + 1) \div 2

Binarized(A) == Arr(A.shape, [i \in 1..Len(A.flat) |-> Heaviside(A.flat[i])])

----------------------------------------------------------------------------
(* __init__(spikes_arr = A, preprocess = pp) *)

Shapes3 ==
    { <<t, n, m>> : t \in 1..MaxT, n \in 1..MaxN, m \in 1..MaxM }

Shapes2 == { <<n, m>> : n \in 1..MaxN, m \in 1..MaxM }

OddShapes ==
    { s \in UNION { [1..r -> 1..2] : r \in (0..MaxOddRank) \ {2, 3} } :
        Prod(s) <= MaxOddCells }

InputArrays ==
    ArraysOf({ s \in Shapes3 \cup Shapes2 : Prod(s) <= MaxCells }, BinVals)
    \cup ArraysOf({ s \in Shapes3 \cup Shapes2 : Prod(s) <= MaxRawCells }, RawVals)
    \cup ArraysOf(OddShapes, BinVals)

\* lines 118-120: a 2-axis array becomes a single trial
Normalized(A) == IF Rank(A) = 2 THEN Reshape(A, <<1>> \o A.shape) ELSE A

Construct(A, pp) ==
    /\ Idle
    /\ ~constructed
    /\ call' = [op |-> "__init__", arr |-> A, preprocess |-> pp]
    /\ pre' = NoArr
    /\ idx' = <<>>
    /\ mean_activities' = <<>>
    /\ LET A3 == Normalized(A) IN
       IF Rank(A3) < 3
       THEN \* shape[0], shape[1] or shape[2] is out of range (lines 122-124)
            /\ ret' = Raise("IndexError")
            /\ UNCHANGED <<constructed, spikes_arr, T, N, M>>
       ELSE /\ constructed' = TRUE
            /\ T' = A3.shape[1]
            /\ N' = A3.shape[2]
            /\ M' = A3.shape[3]
            /\ spikes_arr' = IF pp THEN Binarized(A3) ELSE A3
            /\ ret' = ReturnSelf

----------------------------------------------------------------------------
(* preprocess() *)

Preprocess ==
    /\ Idle
    /\ constructed
    /\ call' = [op |-> "preprocess"]
    /\ pre' = spikes_arr
    /\ spikes_arr' = Binarized(spikes_arr)
    /\ ret' = ReturnNone
    /\ UNCHANGED <<constructed, T, N, M, idx, mean_activities>>

----------------------------------------------------------------------------
(* restrict_to_most_active_neurons(top_neurons = K) *)

RECURSIVE SumSeq(_)
SumSeq(s) == IF s = <<>> THEN 0 ELSE Head(s) + SumSeq(Tail(s))

\* The sum of source n over trials and time bins.  activity[n], the mean over
\* axis 0 of the mean over axis 2, is this sum over shape[1] * shape[3].
ActivitySum(A, n) ==
    SumSeq([k \in 1..(A.shape[1] * A.shape[3]) |->
              At3(A, (k - 1) \div A.shape[3], n, (k - 1) % A.shape[3])])

Activity(A, n) == [num |-> ActivitySum(A, n), den |-> A.shape[1] * A.shape[3]]

\* a <= b for two fractions with positive denominators
FracLeq(a, b) == a.num * b.den <= b.num * a.den

Permutations0(n) ==
    { p \in [1..n -> 0..(n - 1)] : \A i, j \in 1..n : p[i] = p[j] => i = j }

\* activity.argsort(): the orders numpy may return; the default sort is not
\* stable, so equal activities may come in any order
Argsorts(A) ==
    { p \in Permutations0(A.shape[2]) :
        \A i \in 1..(A.shape[2] - 1) :
            FracLeq(Activity(A, p[i]), Activity(A, p[i + 1])) }

\* faulty variant: the leading k
Head_k(s, k) == IF k >= Len(s) THEN s ELSE SubSeq(s, 1, k)

\* s[-k:] for k >= 1
Tail_k(s, k) == IF k >= Len(s) THEN s ELSE SubSeq(s, Len(s) - k + 1, Len(s))

\* A[:, sel, :]
TakeSources(A, sel) ==
    LET t == A.shape[1]
        k == Len(sel)
        m == A.shape[3]
    IN Arr(<<t, k, m>>,
           [j \in 1..(t * k * m) |->
              At3(A, (j - 1) \div (k * m),
                     sel[(((j - 1) \div m) % k) + 1],
                     (j - 1) % m)])

TopNeuronArgs == 0..(MaxN + 1)

Restrict(K) ==
    /\ Idle
    /\ constructed
    /\ Rank(spikes_arr) \in {2, 3}
    /\ call' = [op |-> "restrict_to_most_active_neurons", top_neurons |-> K]
    /\ pre' = spikes_arr
    /\ N' = IF K # 0 THEN K ELSE N
    /\ IF Rank(spikes_arr) = 2
       THEN \* line 148: too many indices for a 2-axis array
            /\ ret' = Raise("IndexError")
            /\ UNCHANGED <<spikes_arr, idx, mean_activities>>
       ELSE \E p \in Argsorts(spikes_arr) :
              LET sel == Tail_k(p, N') IN
              /\ idx' = sel
              /\ mean_activities' =
                     [i \in 1..Len(sel) |-> Activity(spikes_arr, sel[i])]
              /\ spikes_arr' = TakeSources(spikes_arr, sel)
              /\ ret' = ReturnSelf
    /\ UNCHANGED <<constructed, T, M>>

----------------------------------------------------------------------------
(* to_windowed(window_size = w, trials = S), reshape = False *)

MaxWindowOver == 2  \* window sizes up to M + MaxWindowOver

Min(a, b) == IF a < b THEN a ELSE b

\* len(x[lo:hi]) for 0 <= lo <= hi over an axis of length n
SliceLen(lo, hi, n) ==
    IF Min(hi, n) > Min(lo, n) THEN Min(hi, n) - Min(lo, n) ELSE 0

\* trials or range(self._T)
Trials(S) == IF S = <<>> THEN [i \in 1..T |-> i - 1] ELSE S

\* the trials arguments: none, or some of the trials in some order
TrialArgs ==
    { S \in UNION { [1..l -> 0..(T - 1)] : l \in 0..T } :
        \A i, j \in 1..Len(S) : S[i] = S[j] => i = j }

\* faulty variant: time-major (column-major) flattening
WindowVecF(A, t, i, w) ==
    LET we == SliceLen(i, w + i, A.shape[3]) IN
    [j \in 1..(A.shape[2] * we) |->
        At3(A, t, (j - 1) % A.shape[2], i + ((j - 1) \div A.shape[2]))]

\* A[t, :, i:w+i].ravel()
WindowVec(A, t, i, w) ==
    LET we == SliceLen(i, w + i, A.shape[3]) IN
    [j \in 1..(A.shape[2] * we) |->
        At3(A, t, (j - 1) \div we, i + ((j - 1) % we))]

\* Spikes(spikes_arr = X) of a 3-axis array X, preprocess = True (lines 118-127)
NewSpikes(X) ==
    [spikes_arr |-> Binarized(X),
     T |-> X.shape[1], N |-> X.shape[2], M |-> X.shape[3]]

ReturnSpikes(X) == [kind |-> "Spikes", exc |-> "", obj |-> NewSpikes(X)]

\* X after the loops of lines 163-165; rows is window_size * self._N and
\* cols is self._M - window_size + 1 >= 1.  A vector of one element is
\* broadcast over the rows.
Windowed(A, S, w, rows, cols) ==
    Arr(<<Len(S), rows, cols>>,
        [j \in 1..(Len(S) * rows * cols) |->
           LET c == (j - 1) \div (rows * cols)
               r == ((j - 1) \div cols) % rows
               i == (j - 1) % cols
               v == WindowVec(A, S[c + 1], i, w)
           IN IF Len(v) = 1 THEN v[1] ELSE v[r + 1]])

ToWindowed(w, S) ==
    /\ Idle
    /\ constructed
    /\ Rank(spikes_arr) \in {2, 3}
    /\ call' = [op |-> "to_windowed", window_size |-> w, trials |-> S]
    /\ pre' = spikes_arr
    /\ LET trials == Trials(S)
           rows == w * N
           cols == M - w + 1
       IN ret' =
            IF cols < 0
            THEN Raise("ValueError")     \* np.zeros: negative dimension
            ELSE IF cols = 0
            THEN ReturnSpikes(Arr(<<Len(trials), rows, 0>>, <<>>))
            ELSE IF Rank(spikes_arr) = 2
            THEN Raise("IndexError")     \* line 165: too many indices
            ELSE IF /\ spikes_arr.shape[2] * w # rows
                    /\ spikes_arr.shape[2] * w # 1
            THEN Raise("ValueError")     \* line 165: cannot broadcast
            ELSE ReturnSpikes(Windowed(spikes_arr, trials, w, rows, cols))
    /\ UNCHANGED <<constructed, spikes_arr, T, N, M, idx, mean_activities>>

----------------------------------------------------------------------------
(* covariance(trials = S, start, stop) and rasterize(trials = S, start, stop),
   save_png_name = None *)

\* the (start, stop) arguments: 0 <= start < stop <= self._M, or stop = None
RangeArgs ==
    { r \in (0..(M - 1)) \X (0..M) : r[2] = 0 \/ r[1] < r[2] }

\* stop or self._M
Stop(stop) == IF stop = 0 THEN M ELSE stop

MaxOf(S) == CHOOSE x \in S : \A y \in S : y <= x

\* np.cov of the rows i and j of A[t, :, lo:hi], times L * (L - 1), for the
\* L = hi - lo samples:  L * sum(x_i * x_j) - sum(x_i) * sum(x_j)
CovNum(A, t, i, j, lo, hi) ==
    LET L == hi - lo
        xi == [k \in 1..L |-> At3(A, t, i, lo + k - 1)]
        xj == [k \in 1..L |-> At3(A, t, j, lo + k - 1)]
    IN L * SumSeq([k \in 1..L |-> xi[k] * xj[k]]) - SumSeq(xi) * SumSeq(xj)

\* floating-point values: a fraction, or a non-finite value
Frac(n, d) == [k |-> "num", num |-> n, den |-> d]
NaN == [k |-> "nan", num |-> 0, den |-> 0]
Inf == [k |-> "inf", num |-> 0, den |-> 0]
NegInf == [k |-> "-inf", num |-> 0, den |-> 0]

\* x / y for two floats with the same positive scale
FloatDiv(x, y) ==
    IF y # 0 THEN Frac(x, y)
    ELSE IF x > 0 THEN Inf ELSE IF x < 0 THEN NegInf ELSE NaN

\* line 225: sub_spikes_arr[trial] for trial = trials[t]; sub_spikes_arr holds
\* the trials S in order, so this is trial S[S[t]] of the held array
SubTrial(S, t) == S[S[t] + 1]

\* faulty variant: each trial is divided by its own maximum
DivisorLocal(raw, t) ==
    MaxOf({ raw[t][i][j] : i \in 1..Len(raw[t]), j \in 1..Len(raw[t]) })

\* line 226: new_arr.max(), the one divisor of every trial
Divisor(raw, t) ==
    MaxOf({ raw[u][i][j] : u \in 1..Len(raw), i \in 1..Len(raw[t]),
                           j \in 1..Len(raw[t]) })

\* new_arr after line 226, for at least 2 samples; n is self._N and a
\* 1 x 1 covariance (a 0-d array) is broadcast over the n x n matrix
CovMatrices(A, S, lo, hi, n) ==
    LET na == A.shape[2]
        raw == [t \in 1..Len(S) |-> [i \in 1..n |-> [j \in 1..n |->
                   CovNum(A, SubTrial(S, t),
                          IF na = 1 THEN 0 ELSE i - 1,
                          IF na = 1 THEN 0 ELSE j - 1, lo, hi)]]]
    IN [t \in 1..Len(S) |->
          LET d == Divisor(raw, t) IN
          [i \in 1..n |-> [j \in 1..n |-> FloatDiv(raw[t][i][j], d)]]]

\* with fewer than 2 samples np.cov divides 0 by 0
NaNMatrices(S, n) ==
    [t \in 1..Len(S) |-> [i \in 1..n |-> [j \in 1..n |-> NaN]]]

ReturnCov(C) == [kind |-> "cov", exc |-> "", mat |-> C]

Covariance(S, start, stop) ==
    /\ Idle
    /\ constructed
    /\ Rank(spikes_arr) \in {2, 3}
    /\ call' = [op |-> "covariance", trials |-> S, start |-> start, stop |-> stop]
    /\ pre' = spikes_arr
    /\ LET trials == Trials(S)
           lo == Min(start, spikes_arr.shape[3])
           hi == Min(Stop(stop), spikes_arr.shape[3])
       IN ret' =
            IF Rank(spikes_arr) = 2
            THEN Raise("IndexError")     \* line 221: too many indices
            ELSE IF trials[1] >= Len(trials)
            THEN Raise("IndexError")     \* line 225, first trial
            ELSE IF spikes_arr.shape[2] # N /\ spikes_arr.shape[2] # 1
            THEN Raise("ValueError")     \* line 225: cannot broadcast
            ELSE IF \E t \in 1..Len(trials) : trials[t] >= Len(trials)
            THEN Raise("IndexError")     \* line 225, a later trial
            ELSE IF hi - lo < 2
            THEN ReturnCov(NaNMatrices(trials, N))
            ELSE ReturnCov(CovMatrices(spikes_arr, trials, lo, hi, N))
    /\ UNCHANGED <<constructed, spikes_arr, T, N, M, idx, mean_activities>>

\* A[S, :, lo:hi] in row-major order
SubArrayFlat(A, S, lo, hi) ==
    LET n == A.shape[2]
        L == hi - lo
    IN [j \in 1..(Len(S) * n * L) |->
          At3(A, S[((j - 1) \div (n * L)) + 1],
                 ((j - 1) \div L) % n,
                 lo + ((j - 1) % L))]

ReturnArray(A) == [kind |-> "array", exc |-> "", arr |-> A]

Rasterize(S, start, stop) ==
    /\ Idle
    /\ constructed
    /\ Rank(spikes_arr) \in {2, 3}
    /\ call' = [op |-> "rasterize", trials |-> S, start |-> start, stop |-> stop]
    /\ pre' = spikes_arr
    /\ LET trials == Trials(S)
           lo == Min(start, spikes_arr.shape[3])
           hi == Min(Stop(stop), spikes_arr.shape[3])
           rows == Len(trials) * N
           cols == Stop(stop) - start
       IN ret' =
            IF Rank(spikes_arr) = 2
            THEN Raise("IndexError")     \* line 206: too many indices
            ELSE IF Len(trials) * spikes_arr.shape[2] * (hi - lo) # rows * cols
            THEN Raise("ValueError")     \* line 212: cannot reshape
            ELSE ReturnArray(Arr(<<rows, cols>>,
                                 SubArrayFlat(spikes_arr, trials, lo, hi)))
    /\ UNCHANGED <<constructed, spikes_arr, T, N, M, idx, mean_activities>>

----------------------------------------------------------------------------
(* load_from_spikes_times(spike_times_lists = lists, bin_size = b) *)

MicrosPerMilli == 1000

MaxSources == 2     \* event-time sequences in one call
MaxEvents == 3      \* events in one call, over all sources
MaxTicks == 4       \* timestamps are 0, 500, ..., 500 * MaxTicks microseconds
MaxBinSize == 2     \* bin sizes 1..MaxBinSize milliseconds
MaxDirectMs == 1    \* the timestamp of a call on an object that holds an array

TimeStamps == { 500 * k : k \in 0..MaxTicks }

\* the sequence f cut into pieces of the lengths lens
RECURSIVE Split(_, _)
Split(f, lens) ==
    IF lens = <<>> THEN <<>>
    ELSE <<SubSeq(f, 1, Head(lens))>>
         \o Split(SubSeq(f, Head(lens) + 1, Len(f)), Tail(lens))

\* the ways to cut e events into k sequences, empty ones too
Cuts(e, k) == { l \in [1..k -> 0..e] : SumSeq(l) = e }

\* spike_times[-1]
Last(s) == s[Len(s)]

\* np.int(self.max_millisec): the whole milliseconds of the largest last
\* timestamp (lines 184-187)
MaxMillisec(lists) ==
    MaxOf({ Last(lists[c]) : c \in 1..Len(lists) }) \div MicrosPerMilli

\* line 188: the number of bins
Bins(lists, b) == (MaxMillisec(lists) \div b) + 1

\* faulty variant: the bin index rounded up
BinIndexCeil(t, b) == (t + MicrosPerMilli * b - 1) \div (MicrosPerMilli * b)

\* line 191: int(spike_time / (1000. * bin_size))
BinIndex(t, b) == t \div (MicrosPerMilli * b)

\* lines 188-193
Grid(lists, b) ==
    LET n == Len(lists)
        m == Bins(lists, b)
    IN Arr(<<n, m>>,
           [j \in 1..(n * m) |->
              LET c == ((j - 1) \div m) + 1
                  a == (j - 1) % m
              IN IF \E e \in 1..Len(lists[c]) : BinIndex(lists[c][e], b) = a
                 THEN 1 ELSE 0])

LoadFromSpikesTimes(lists, b) ==
    /\ Idle
    /\ constructed
    /\ call' = [op |-> "load_from_spikes_times",
                spike_times_lists |-> lists, bin_size |-> b]
    /\ pre' = NoArr
    /\ IF lists = <<>>
       THEN \* line 183
            /\ ret' = ReturnNone
            /\ UNCHANGED spikes_arr
       ELSE IF \E c \in 1..Len(lists) : lists[c] = <<>>
       THEN \* line 186: spike_times[-1] of an empty sequence
            /\ ret' = Raise("IndexError")
            /\ UNCHANGED spikes_arr
       ELSE /\ ret' = ReturnNone
            /\ spikes_arr' = Grid(lists, b)
    /\ UNCHANGED <<constructed, T, N, M, idx, mean_activities>>

\* calls on an object that holds an array: no source, or one source with one event
DirectTimeLists ==
    {<<>>} \cup { << <<MicrosPerMilli * k>> >> : k \in 0..MaxDirectMs }

----------------------------------------------------------------------------
(* The caller is done with the result of the last call *)

Discard ==
    /\ ~Idle
    /\ call' = NoCall
    /\ pre' = NoArr
    /\ ret' = ReturnNone
    /\ UNCHANGED <<constructed, spikes_arr, T, N, M, idx, mean_activities>>

----------------------------------------------------------------------------

Init ==
    /\ constructed = FALSE
    /\ spikes_arr = NoArr
    /\ T = 0
    /\ N = 0
    /\ M = 0
    /\ idx = <<>>
    /\ mean_activities = <<>>
    /\ call = NoCall
    /\ pre = NoArr
    /\ ret = ReturnNone

\* The calls with their arguments.  An argument is drawn only where the call
\* can be made: the guards stand before the quantifiers.

New ==
    /\ Idle /\ ~constructed
    /\ \E A \in InputArrays, pp \in BOOLEAN : Construct(A, pp)

CallRestrict ==
    /\ Idle /\ constructed
    /\ \E K \in TopNeuronArgs : Restrict(K)

CallToWindowed ==
    /\ Idle /\ constructed
    /\ \E w \in 1..(M + MaxWindowOver), S \in TrialArgs : ToWindowed(w, S)

CallCovariance ==
    /\ Idle /\ constructed
    /\ \E S \in TrialArgs, r \in RangeArgs : Covariance(S, r[1], r[2])

CallRasterize ==
    /\ Idle /\ constructed
    /\ \E S \in TrialArgs : Rasterize(S, 0, 0)

CallLoad ==
    /\ Idle /\ constructed
    /\ \E lists \in DirectTimeLists : LoadFromSpikesTimes(lists, 1)

\* any sequence of calls on one object
Next ==
    \/ New
    \/ Preprocess
    \/ CallRestrict
    \/ CallToWindowed
    \/ CallCovariance
    \/ CallRasterize
    \/ CallLoad
    \/ Discard

Spec == Init /\ [][Next]_vars

----------------------------------------------------------------------------
(* Binning alone: load_from_spikes_times on the object Spikes() returns
   (line 116: no array held, T = N = M = 0) *)

InitEmpty ==
    /\ constructed = TRUE
    /\ spikes_arr = NoArr
    /\ T = 0
    /\ N = 0
    /\ M = 0
    /\ idx = <<>>
    /\ mean_activities = <<>>
    /\ call = NoCall
    /\ pre = NoArr
    /\ ret = ReturnNone

\* one call, on up to MaxSources sequences of timestamps in any order, with
\* up to MaxEvents timestamps in all
NextTimes ==
    /\ Idle
    /\ \E k \in 0..MaxSources, e \in 0..MaxEvents, b \in 1..MaxBinSize :
         \E f \in [1..e -> TimeStamps], lens \in Cuts(e, k) :
            LoadFromSpikesTimes(Split(f, lens), b)

SpecTimes == InitEmpty /\ [][NextTimes]_vars

----------------------------------------------------------------------------
(* Fewer kinds of calls on the objects made from the input arrays *)

NextPreprocess == New \/ Preprocess \/ Discard

SpecPreprocess == Init /\ [][NextPreprocess]_vars

NextRestrict == New \/ CallRestrict \/ Discard

SpecRestrict == Init /\ [][NextRestrict]_vars

NextWindowed == New \/ CallRestrict \/ CallToWindowed \/ Discard

SpecWindowed == Init /\ [][NextWindowed]_vars

NextCovariance == New \/ CallCovariance \/ Discard

SpecCovariance == Init /\ [][NextCovariance]_vars

----------------------------------------------------------------------------
(* Properties *)

\* the stored dimensions are those of the held array, which has 3 axes
HoldsTNM == spikes_arr.shape = <<T, N, M>>

IsBinary(A) == \A i \in 1..Len(A.flat) : A.flat[i] \in {0, 1}

FracEq(a, b) == a.num * b.den = b.num * a.den

\* C8: preprocess keeps the shape of the held array and maps every strictly
\* positive element to 1 and every zero or strictly negative element to 0.
ThmPreprocess ==
    call.op = "preprocess" =>
        /\ ret = ReturnNone
        /\ spikes_arr.shape = pre.shape
        /\ Len(spikes_arr.flat) = Len(pre.flat)
        /\ \A i \in 1..Len(pre.flat) :
              /\ pre.flat[i] > 0 => spikes_arr.flat[i] = 1
              /\ pre.flat[i] = 0 => spikes_arr.flat[i] = 0
              /\ pre.flat[i] < 0 => spikes_arr.flat[i] = 0

\* preprocess has run on an array with a negative, a zero and a positive
\* element other than 1
WitPreprocess ==
    /\ call.op = "preprocess"
    /\ \E i, j, k \in 1..Len(pre.flat) :
          pre.flat[i] < 0 /\ pre.flat[j] = 0 /\ pre.flat[k] > 1

\* the largest last timestamp, in microseconds
MaxLast(lists) == MaxOf({ lists[c][Len(lists[c])] : c \in 1..Len(lists) })

\* C1: for a nonempty list of nonempty timestamp sequences and a bin size b,
\* load_from_spikes_times returns without raising and holds a grid of
\* len(lists) rows and floor(L / b) + 1 columns, L the largest last timestamp
\* in milliseconds, where cell (c, a) is 1 exactly if source c has an event
\* in [1000 b a, 1000 b (a + 1)) microseconds and 0 otherwise; scenario A
\* gives the 2 x 3 grid with bins {1, 2} and {1} set.
ThmBinning ==
    ( /\ call.op = "load_from_spikes_times"
      /\ call.spike_times_lists # <<>>
      /\ \A c \in 1..Len(call.spike_times_lists) :
            call.spike_times_lists[c] # <<>> )
    => LET lists == call.spike_times_lists
           b == call.bin_size
           cols == (MaxLast(lists) \div (1000 * b)) + 1
       IN /\ ret = ReturnNone
          /\ spikes_arr.shape = <<Len(lists), cols>>
          /\ Len(spikes_arr.flat) = Len(lists) * cols
          /\ \A c \in 1..Len(lists), a \in 0..(cols - 1) :
                /\ At2(spikes_arr, c - 1, a) \in {0, 1}
                /\ At2(spikes_arr, c - 1, a) = 1 <=>
                      \E e \in 1..Len(lists[c]) :
                          /\ 1000 * b * a <= lists[c][e]
                          /\ lists[c][e] < 1000 * b * (a + 1)
          /\ (lists = << <<1000, 2000>>, <<1500>> >> /\ b = 1)
                => spikes_arr = Arr(<<2, 3>>, <<0, 1, 1, 0, 1, 0>>)

\* the call has binned two sources, dropping an event beyond the last bin
\* and setting a bin from a timestamp that is no whole number of bins
WitBinning ==
    /\ call.op = "load_from_spikes_times"
    /\ ret = ReturnNone
    /\ Len(call.spike_times_lists) = 2
    /\ \A c \in 1..2 : call.spike_times_lists[c] # <<>>
    /\ \E c \in 1..2 : \E e \in 1..Len(call.spike_times_lists[c]) :
          call.spike_times_lists[c][e]
              >= 1000 * call.bin_size * spikes_arr.shape[2]
    /\ \E c \in 1..2 : \E e \in 1..Len(call.spike_times_lists[c]) :
          /\ call.spike_times_lists[c][e] % (1000 * call.bin_size) # 0
          /\ call.spike_times_lists[c][e]
              < 1000 * call.bin_size * spikes_arr.shape[2]

\* C2: on an object that holds a binary T x N x M array, to_windowed with
\* 1 <= w <= M and trials S (all trials in order when none are given) returns
\* an object that holds X of shape |S| x (w N) x (M - w + 1) with
\* X[c, n w + k, i] = A[S[c], n, i + k].
ThmWindowed ==
    ( /\ call.op = "to_windowed"
      /\ HoldsTNM
      /\ IsBinary(spikes_arr)
      /\ call.window_size >= 1
      /\ call.window_size <= M )
    => LET w == call.window_size
           S == IF call.trials = <<>> THEN [c \in 1..T |-> c - 1]
                ELSE call.trials
       IN /\ ret.kind = "Spikes"
          /\ LET X == ret.obj.spikes_arr IN
             /\ X.shape = <<Len(S), w * N, M - w + 1>>
             /\ Len(X.flat) = Len(S) * w * N * (M - w + 1)
             /\ ret.obj.T = Len(S) /\ ret.obj.N = w * N /\ ret.obj.M = M - w + 1
             /\ \A c \in 0..(Len(S) - 1), n \in 0..(N - 1),
                   k \in 0..(w - 1), i \in 0..(M - w) :
                   At3(X, c, n * w + k, i) = At3(spikes_arr, S[c + 1], n, i + k)
          /\ spikes_arr = pre

\* windows of 2 bins over 2 sources whose rows differ, trials given in
\* another order than held
WitWindowed ==
    /\ call.op = "to_windowed"
    /\ HoldsTNM
    /\ IsBinary(spikes_arr)
    /\ call.window_size = 2
    /\ N = 2
    /\ call.trials = <<1, 0>>
    /\ ret.kind = "Spikes"
    /\ At3(spikes_arr, 1, 0, 1) # At3(spikes_arr, 1, 1, 0)
    /\ At3(spikes_arr, 0, 0, 0) # At3(spikes_arr, 1, 0, 0)

\* C3: on an object that holds a 3-axis array of n sources,
\* restrict_to_most_active_neurons(K) with 1 <= K <= n (K the stored N when
\* none is given) sets idx to K distinct sources with non-decreasing mean
\* activity, none of the others being strictly more active than one of them
\* (so all n sources, each once, for K = n), and holds the array restricted to
\* these sources in this order.
ThmRestrict ==
    ( /\ call.op = "restrict_to_most_active_neurons"
      /\ Len(pre.shape) = 3
      /\ N <= pre.shape[2] )
    => LET n == pre.shape[2]
           K == N
           mean(c) == [num |-> ActivitySum(pre, c),
                       den |-> pre.shape[1] * pre.shape[3]]
       IN /\ call.top_neurons # 0 => K = call.top_neurons
          /\ ret = ReturnSelf
          /\ Len(idx) = K
          /\ \A i \in 1..K : idx[i] \in 0..(n - 1)
          /\ \A i, j \in 1..K : idx[i] = idx[j] => i = j
          /\ K = n => \A c \in 0..(n - 1) : \E i \in 1..K : idx[i] = c
          /\ Len(mean_activities) = K
          /\ \A i \in 1..K : FracEq(mean_activities[i], mean(idx[i]))
          /\ \A i \in 1..(K - 1) :
                FracLeq(mean_activities[i], mean_activities[i + 1])
          /\ \A c \in 0..(n - 1) :
                (\A i \in 1..K : idx[i] # c) =>
                    \A i \in 1..K : FracLeq(mean(c), mean(idx[i]))
          /\ spikes_arr.shape = <<pre.shape[1], K, pre.shape[3]>>
          /\ Len(spikes_arr.flat) = pre.shape[1] * K * pre.shape[3]
          /\ \A t \in 0..(pre.shape[1] - 1), j \in 0..(K - 1),
                m \in 0..(pre.shape[3] - 1) :
                At3(spikes_arr, t, j, m) = At3(pre, t, idx[j + 1], m)

\* the one most active of two sources has been selected, and it is the first
WitRestrict ==
    /\ call.op = "restrict_to_most_active_neurons"
    /\ call.top_neurons = 1
    /\ Len(pre.shape) = 3
    /\ pre.shape[2] = 2
    /\ ActivitySum(pre, 0) > ActivitySum(pre, 1)
    /\ idx = <<0>>
    /\ ret = ReturnSelf

\* The covariance of the sources i and j over the bins [lo, hi) of trial t,
\* times L * L * (L - 1) for the L = hi - lo samples: the sum of the products
\* of the deviations from the means, each deviation times L.
CovDef(A, t, i, j, lo, hi) ==
    LET L == hi - lo
        Si == SumSeq([k \in 1..L |-> At3(A, t, i, lo + k - 1)])
        Sj == SumSeq([k \in 1..L |-> At3(A, t, j, lo + k - 1)])
    IN SumSeq([k \in 1..L |->
                 (L * At3(A, t, i, lo + k - 1) - Si)
                 * (L * At3(A, t, j, lo + k - 1) - Sj)])

\* the largest such entry over the trials S
MaxCovDef(A, S, lo, hi) ==
    MaxOf({ CovDef(A, S[t], i, j, lo, hi) :
              t \in 1..Len(S), i \in 0..(A.shape[2] - 1),
              j \in 0..(A.shape[2] - 1) })

AllTrials == [c \in 1..T |-> c - 1]

\* covariance() is called on all trials and all time bins
CovarianceOfAll ==
    /\ call.op = "covariance"
    /\ call.trials \in {<<>>, AllTrials}
    /\ call.start = 0
    /\ call.stop \in {0, M}

\* C4: on an object that holds a binary T x N x M array whose largest raw
\* covariance entry over all trials is strictly positive, covariance() returns
\* T matrices of N x N entries, each the raw covariance entry of its trial
\* divided by that one largest entry; each matrix is symmetric, every entry
\* lies in [-1, 1], and the matrix of an all-zero trial is all zeros.
ThmCovariance ==
    ( /\ CovarianceOfAll
      /\ HoldsTNM
      /\ IsBinary(spikes_arr)
      /\ M >= 2
      /\ MaxCovDef(spikes_arr, AllTrials, 0, M) > 0 )
    => /\ ret.kind = "cov"
       /\ Len(ret.mat) = T
       /\ \A t \in 1..T :
             /\ Len(ret.mat[t]) = N
             /\ \A i \in 1..N :
                   /\ Len(ret.mat[t][i]) = N
                   /\ \A j \in 1..N :
                         LET e == ret.mat[t][i][j] IN
                         /\ e.k = "num"
                         /\ e.den > 0
                         /\ e.num * MaxCovDef(spikes_arr, AllTrials, 0, M)
                               = CovDef(spikes_arr, t - 1, i - 1, j - 1, 0, M)
                                 * e.den
                         /\ FracEq(e, ret.mat[t][j][i])
                         /\ -e.den <= e.num
                         /\ e.num <= e.den
                         /\ (\A n \in 0..(N - 1), m \in 0..(M - 1) :
                                At3(spikes_arr, t - 1, n, m) = 0)
                               => e.num = 0
       /\ spikes_arr = pre

\* covariance() on two trials of two sources, the first trial all zeros, the
\* second with two sources that vary against each other
WitCovariance ==
    /\ CovarianceOfAll
    /\ HoldsTNM
    /\ IsBinary(spikes_arr)
    /\ T = 2 /\ N = 2 /\ M >= 2
    /\ \A n \in 0..1, m \in 0..(M - 1) : At3(spikes_arr, 0, n, m) = 0
    /\ CovDef(spikes_arr, 1, 0, 1, 0, M) < 0
    /\ ret.kind = "cov"
    /\ ret.mat[2][1][2].num < 0
    /\ ret.mat[1][1][1] = Frac(0, ret.mat[2][1][2].den)

\* C5: covariance() fails with a DegenerateInputError when the largest raw
\* covariance entry is zero, and no entry it returns is non-finite.
CexDegenerate ==
    ( /\ CovarianceOfAll
      /\ HoldsTNM
      /\ M >= 2 )
    => IF MaxCovDef(spikes_arr, AllTrials, 0, M) = 0
       THEN ret = Raise("DegenerateInputError")
       ELSE ret.kind = "cov" =>
               \A t \in 1..Len(ret.mat) : \A i, j \in 1..Len(ret.mat[t]) :
                   ret.mat[t][i][j].k = "num"

\* C6: __init__ fails on an array of fewer than 2 or more than 3 axes and
\* makes no object of it; a 2-axis N x M array is held as 1 x N x M and a
\* 3-axis array as it is.
CexShape ==
    call.op = "__init__" =>
        LET A == call.arr IN
        /\ Len(A.shape) \notin {2, 3} => (ret.kind = "raise" /\ ~constructed)
        /\ Len(A.shape) = 2 =>
              /\ constructed
              /\ spikes_arr.shape = <<1, A.shape[1], A.shape[2]>>
        /\ Len(A.shape) = 3 => (constructed /\ spikes_arr.shape = A.shape)
        /\ constructed =>
              /\ HoldsTNM
              /\ ~call.preprocess => spikes_arr.flat = A.flat

\* C7: to_windowed with a window_size above M does not fail; the object it
\* returns has an empty time axis.
CexWindowTooLarge ==
    ( /\ call.op = "to_windowed"
      /\ HoldsTNM
      /\ call.window_size > M )
    => /\ ret.kind = "Spikes"
       /\ ret.obj.M = 0
       /\ ret.obj.spikes_arr.shape[3] = 0

\* C9: whatever has been called on an object made from an array, it holds an
\* array of 3 axes whose lengths are the stored T, N and M.  (An object made
\* from an array of more than 3 axes is the matter of C6 and is left aside.)
CexDims ==
    (constructed /\ Len(spikes_arr.shape) <= 3) => HoldsTNM

\* C10: covariance(trials = S, start, stop) with S some of the trials in some
\* order and 0 <= start < stop <= M returns |S| matrices, the t-th computed
\* from trial S[t] over the bins [start, stop).
CexCovTrials ==
    ( /\ call.op = "covariance"
      /\ HoldsTNM
      /\ call.trials # <<>>
      /\ call.stop # 0 )
    => LET S == call.trials
           lo == call.start
           hi == call.stop
       IN /\ ret.kind = "cov"
          /\ Len(ret.mat) = Len(S)
          /\ (hi - lo >= 2 /\ MaxCovDef(spikes_arr, S, lo, hi) > 0) =>
                \A t \in 1..Len(S), i, j \in 1..N :
                    LET e == ret.mat[t][i][j] IN
                    /\ e.k = "num"
                    /\ e.den > 0
                    /\ e.num * MaxCovDef(spikes_arr, S, lo, hi)
                          = CovDef(spikes_arr, S[t], i - 1, j - 1, lo, hi)
                            * e.den

====
